---- MODULE Spec2Model ----
(***************************************************************************)
(* A model of APP.py: the ResumeBuilder class (conversation transcript,    *)
(* prompt construction, streaming accumulation, JSON persistence, PDF      *)
(* assembly) and the "Generate Section" handler of main().                 *)
(*                                                                         *)
(* A text (a Python str) is a sequence of tokens.  A token is one          *)
(* character that a conversion treats specially (quote, backslash,         *)
(* newline, brace, ...) or a run of ordinary characters.                   *)
(***************************************************************************)
EXTENDS Integers, Sequences, FiniteSets, TLC

VARIABLES
    convo,            \* self.convo: the transcript, a sequence of turns
    resume_data,      \* self.resume_data: insertion-ordered dict, a sequence of entries
    file,             \* resume_data.json on disk: [exists, text]
    pc,               \* position of the running script / caller
    response,         \* stream_response's local accumulator
    full_response,    \* main's local accumulator of the fragments it received
    current_section,  \* section name of the call in progress
    user_input,       \* raw text of the call in progress
    errors,           \* number of st.error reports made so far
    yielded,          \* fragments yielded by the call in progress, in order
    convo0,           \* the transcript as it was when the call was made
    resume0,          \* resume_data as it was when the trigger fired
    outcome,          \* how the last model invocation ended: none / ok / failed
    calls,            \* number of calls (script runs) made so far
    origin,           \* per section: how the invocation that produced it ended
    saved,            \* the resume handed to the last save_resume
    template,         \* template name given to create_pdf
    pdf_file,         \* the file at create_pdf's target filename: [exists, doc]
    request,          \* the messages the last ollama.chat call was given
    nchunks,          \* chunks the model stream has delivered in this call
    render_result     \* how the last create_pdf ended: none / ok / KeyError / AttributeError

vars == <<convo, resume_data, file, pc, response, full_response, current_section,
          user_input, errors, yielded, convo0, resume0, outcome, calls, origin,
          saved, template, pdf_file, request, nchunks, render_result>>

----------------------------------------------------------------------------
(* Bounds *)

MaxLen == 2          \* longest raw text drawn for a persisted field
MaxChunks == 2       \* most chunks one model stream delivers
MaxCalls == 2        \* most stream_response calls on one ResumeBuilder
MaxRuns == 2         \* most script runs of main() in one session
MaxInputLen == 2     \* longest user input drawn for prompt construction
MaxLines == 2        \* most lines of a generated text drawn for rendering

----------------------------------------------------------------------------
(* Text helpers *)

RECURSIVE Concat(_)
\* ''.join(parts): the concatenation, in order, of a sequence of texts
Concat(parts) ==
    IF parts = <<>> THEN <<>> ELSE Head(parts) \o Concat(Tail(parts))

RECURSIVE TextsUpTo(_, _)
\* every text of at most n tokens over the alphabet
TextsUpTo(alphabet, n) ==
    IF n = 0 THEN {<<>>}
    ELSE LET shorter == TextsUpTo(alphabet, n - 1)
         IN  shorter \cup {Append(t, c) : t \in shorter, c \in alphabet}

\* `tok in text`
Contains(text, tok) == \E i \in 1..Len(text) : text[i] = tok

----------------------------------------------------------------------------
(* The resume store: an insertion-ordered dict name -> {input, generated} *)

Entry(name, input, generated) ==
    [name |-> name, input |-> input, generated |-> generated]

HasSection(data, name) == \E i \in 1..Len(data) : data[i].name = name

IndexOf(data, name) == CHOOSE i \in 1..Len(data) : data[i].name = name

\* data[name]
Get(data, name) == data[IndexOf(data, name)]

\* data[name] = {...}: replaces in place, or inserts last
SetEntry(data, e) ==
    IF HasSection(data, e.name)
    THEN [data EXCEPT ![IndexOf(data, e.name)] = e]
    ELSE Append(data, e)

NoFile == [exists |-> FALSE, text |-> <<>>]

----------------------------------------------------------------------------
(* json.dump / json.load on the resume store *)

\* a writer that copies every character as it is
EscapeChar_raw(c) == <<c>>

\* the tokens json.dump writes for one character of a str
EscapeChar(c) ==
    CASE c = "\"" -> <<"\\", "\"">>
      [] c = "\\" -> <<"\\", "\\">>
      [] c = "\n" -> <<"\\", "n">>
      [] OTHER    -> <<c>>

RECURSIVE EscapeText(_)
EscapeText(text) ==
    IF text = <<>> THEN <<>>
    ELSE EscapeChar(Head(text)) \o EscapeText(Tail(text))

\* a str as a JSON string literal
EncodeStr(text) == <<"\"">> \o EscapeText(text) \o <<"\"">>

\* {"input": ..., "generated": ...}
EncodeSection(e) ==
    <<"{">> \o EncodeStr(<<"input">>) \o <<":", " ">> \o EncodeStr(e.input)
            \o <<",", " ">>
            \o EncodeStr(<<"generated">>) \o <<":", " ">> \o EncodeStr(e.generated)
            \o <<"}">>

RECURSIVE EncodeMembers(_)
EncodeMembers(data) ==
    IF data = <<>> THEN <<>>
    ELSE EncodeStr(<<Head(data).name>>) \o <<":", " ">> \o EncodeSection(Head(data))
         \o (IF Tail(data) = <<>> THEN <<>> ELSE <<",", " ">>)
         \o EncodeMembers(Tail(data))

\* json.dump(self.resume_data, f): the text written to the file
JsonDump(data) == <<"{">> \o EncodeMembers(data) \o <<"}">>

Fail == [ok |-> FALSE, val |-> <<>>, next |-> 0]

Ok(v, n) == [ok |-> TRUE, val |-> v, next |-> n]

RECURSIVE SkipWs(_, _)
\* the decoder skips whitespace between tokens
SkipWs(t, i) == IF i <= Len(t) /\ t[i] = " " THEN SkipWs(t, i + 1) ELSE i

At(t, i, tok) == i <= Len(t) /\ t[i] = tok

RECURSIVE StrBody(_, _, _)
\* the characters of a string literal up to its closing quote, escapes undone
StrBody(t, i, acc) ==
    IF i > Len(t) THEN Fail
    ELSE IF t[i] = "\"" THEN Ok(acc, i + 1)
    ELSE IF t[i] = "\n" THEN Fail          \* a raw control character
    ELSE IF t[i] = "\\"
         THEN IF i + 1 > Len(t) THEN Fail
              ELSE IF t[i + 1] = "\"" THEN StrBody(t, i + 2, Append(acc, "\""))
              ELSE IF t[i + 1] = "\\" THEN StrBody(t, i + 2, Append(acc, "\\"))
              ELSE IF t[i + 1] = "n" THEN StrBody(t, i + 2, Append(acc, "\n"))
              ELSE Fail
    ELSE StrBody(t, i + 1, Append(acc, t[i]))

ParseStr(t, i) == IF At(t, i, "\"") THEN StrBody(t, i + 1, <<>>) ELSE Fail

\* d[k] = v of the dict being built: a repeated key keeps its place, the last value wins
PutPair(pairs, k, v) ==
    IF \E j \in 1..Len(pairs) : pairs[j][1] = k
    THEN [j \in 1..Len(pairs) |-> IF pairs[j][1] = k THEN <<k, v>> ELSE pairs[j]]
    ELSE Append(pairs, <<k, v>>)

RECURSIVE FieldMembers(_, _, _)
\* the members of an object whose values are strings, from the first key on
FieldMembers(t, i, acc) ==
    LET k == ParseStr(t, SkipWs(t, i)) IN
    IF ~k.ok THEN Fail
    ELSE LET c == SkipWs(t, k.next) IN
         IF ~At(t, c, ":") THEN Fail
         ELSE LET v == ParseStr(t, SkipWs(t, c + 1)) IN
              IF ~v.ok THEN Fail
              ELSE LET e == SkipWs(t, v.next)
                       got == PutPair(acc, k.val, v.val)
                   IN  IF At(t, e, "}") THEN Ok(got, e + 1)
                       ELSE IF At(t, e, ",") THEN FieldMembers(t, e + 1, got)
                       ELSE Fail

ParseFields(t, i) ==
    IF ~At(t, i, "{") THEN Fail
    ELSE IF At(t, SkipWs(t, i + 1), "}") THEN Ok(<<>>, SkipWs(t, i + 1) + 1)
    ELSE FieldMembers(t, i + 1, <<>>)

HasKey(pairs, k) == \E j \in 1..Len(pairs) : pairs[j][1] = k

Lookup(pairs, k) == pairs[CHOOSE j \in 1..Len(pairs) : pairs[j][1] = k][2]

RECURSIVE SectionMembers(_, _, _)
\* the members of the outer object: section name -> object of strings
SectionMembers(t, i, acc) ==
    LET k == ParseStr(t, SkipWs(t, i)) IN
    IF ~k.ok \/ Len(k.val) # 1 THEN Fail
    ELSE LET c == SkipWs(t, k.next) IN
         IF ~At(t, c, ":") THEN Fail
         ELSE LET v == ParseFields(t, SkipWs(t, c + 1)) IN
              IF ~v.ok THEN Fail
              ELSE IF ~(HasKey(v.val, <<"input">>) /\ HasKey(v.val, <<"generated">>)
                        /\ Len(v.val) = 2)
                   THEN Fail      \* not the shape save_resume writes
              ELSE LET e == SkipWs(t, v.next)
                       got == SetEntry(acc, Entry(k.val[1],
                                                  Lookup(v.val, <<"input">>),
                                                  Lookup(v.val, <<"generated">>)))
                   IN  IF At(t, e, "}") THEN Ok(got, e + 1)
                       ELSE IF At(t, e, ",") THEN SectionMembers(t, e + 1, got)
                       ELSE Fail

\* json.load(f): [ok, val]; ok is FALSE when the decoder raises
JsonLoad(t) ==
    LET i == SkipWs(t, 1)
        r == IF ~At(t, i, "{") THEN Fail
             ELSE IF At(t, SkipWs(t, i + 1), "}") THEN Ok(<<>>, SkipWs(t, i + 1) + 1)
             ELSE SectionMembers(t, i + 1, <<>>)
    IN  IF r.ok /\ SkipWs(t, r.next) = Len(t) + 1 THEN r ELSE Fail

----------------------------------------------------------------------------
(* The prompt catalog and str.format *)

Slot == <<"{", "input", "}">>

SupportedSections ==
    {"Personal Information", "Professional Summary", "Work Experience",
     "Education", "Skills", "Projects", "Certifications"}

\* the prompts dict of generate_resume_section: literal text around one {input} slot
prompts(name) ==
    CASE name = "Personal Information" ->
           <<"Generate a professionally formatted personal information section with the following details:\n            ">>
           \o Slot \o
           <<"\n            Format it as a structured YAML with these fields: name, title, email, phone, location, linkedin">>
      [] name = "Professional Summary" ->
           <<"Create a compelling professional summary based on:\n            ">>
           \o Slot \o
           <<"\n            Focus on key achievements and value proposition. Keep it under 4 sentences.">>
      [] name = "Work Experience" ->
           <<"Transform the following work experience into powerful bullet points:\n            ">>
           \o Slot \o
           <<"\n            Format as YAML with: company, position, duration, and at least 3 achievement-focused bullets using action verbs and metrics.">>
      [] name = "Skills" ->
           <<"Organize these skills into categories:\n            ">>
           \o Slot \o
           <<"\n            Format as YAML with these categories: Technical Skills, Soft Skills, Tools & Technologies">>
      [] name = "Education" ->
           <<"Format this education information:\n            ">>
           \o Slot \o
           <<"\n            Include: degree, institution, graduation_date, gpa (if >3.5), honors, relevant_coursework">>
      [] name = "Projects" ->
           <<"Create structured project descriptions from:\n            ">>
           \o Slot \o
           <<"\n            Format as YAML with: name, duration, technologies_used, description, key_achievements">>
      [] name = "Certifications" ->
           <<"Format certification information:\n            ">>
           \o Slot \o
           <<"\n            Include: name, issuing_organization, date, expiration_date (if applicable), credential_id">>

\* the default of prompts.get(section_name, ...)
GenericPrompt == <<"Format the following information professionally: ">> \o Slot

\* prompts.get(section_name, GenericPrompt)
BasePrompt(name) ==
    IF name \in SupportedSections THEN prompts(name) ELSE GenericPrompt

RECURSIVE FormatFrom(_, _, _, _)
\* str.format's scan of the template from token i: literal text is copied, {{ and }}
\* are unescaped, {input} is replaced by the keyword argument (inserted as it is and
\* not scanned again), any other field or a lone brace raises
FormatFrom(tpl, i, input, acc) ==
    IF i > Len(tpl) THEN [ok |-> TRUE, text |-> acc]
    ELSE IF tpl[i] = "{"
         THEN IF At(tpl, i + 1, "{") THEN FormatFrom(tpl, i + 2, input, Append(acc, "{"))
              ELSE IF At(tpl, i + 1, "input") /\ At(tpl, i + 2, "}")
                   THEN FormatFrom(tpl, i + 3, input, acc \o input)
              ELSE [ok |-> FALSE, text |-> <<>>]
    ELSE IF tpl[i] = "}"
         THEN IF At(tpl, i + 1, "}") THEN FormatFrom(tpl, i + 2, input, Append(acc, "}"))
              ELSE [ok |-> FALSE, text |-> <<>>]
    ELSE FormatFrom(tpl, i + 1, input, Append(acc, tpl[i]))

\* a formatter that scans the substituted text once more
Format_rescan(tpl, input) ==
    LET once == FormatFrom(tpl, 1, input, <<>>) IN
    IF once.ok THEN FormatFrom(once.text, 1, input, <<>>) ELSE once

\* base_prompt.format(input=user_input)
Format(tpl, input) == FormatFrom(tpl, 1, input, <<>>)

\* formatted_prompt of generate_resume_section: [ok, text]
FormattedPrompt(name, input) == Format(BasePrompt(name), input)

Turn(role, content) == [role |-> role, content |-> content]

----------------------------------------------------------------------------
(* ResumeBuilder.stream_response, a generator, step by step *)

\* the content fragments the model service may deliver
Fragments == {<<"a">>, <<"\"", "\n">>}

\* a streamer that never records the user turn
WithUserTurn_none(c, prompt) == c

\* self.convo.append({'role': 'user', 'content': prompt})
WithUserTurn(c, prompt) == Append(c, Turn("user", prompt))

\* an accumulator that puts each new fragment first
Accumulate_front(acc, fragment) == fragment \o acc

\* response += chunk['message']['content']
Accumulate(acc, fragment) == acc \o fragment

\* self.convo.append({'role': 'assistant', 'content': response}) after the loop
ConvoAfterStream(c, resp) == Append(c, Turn("assistant", resp))

\* an except branch that records what had been accumulated
ConvoAfterFailure_partial(c, resp) == Append(c, Turn("assistant", resp))

\* the except branch: st.error(...) and return, the transcript is left as it is
ConvoAfterFailure(c, resp) == c

\* from the first next() to the first suspension: the user turn is appended, the
\* accumulator cleared and ollama.chat called with messages=self.convo
StreamBegin(prompt) ==
    /\ convo0' = convo
    /\ convo' = WithUserTurn(convo, prompt)
    /\ request' = convo'
    /\ response' = <<>>
    /\ full_response' = <<>>
    /\ yielded' = <<>>
    /\ nchunks' = 0
    /\ outcome' = "none"

\* a chunk that carries content: accumulated, yielded, and added up by the consumer
\* (main: full_response += chunk)
Chunk(fragment) ==
    /\ pc = "stream"
    /\ nchunks < MaxChunks
    /\ nchunks' = nchunks + 1
    /\ response' = Accumulate(response, fragment)
    /\ yielded' = Append(yielded, fragment)
    /\ full_response' = full_response \o fragment
    /\ UNCHANGED <<convo, resume_data, file, pc, current_section, user_input, errors,
                   convo0, resume0, outcome, calls, origin, saved, template, pdf_file,
                   request, render_result>>

\* a chunk that is empty or has no message/content: the if of line 58 skips it
SkipChunk ==
    /\ pc = "stream"
    /\ nchunks < MaxChunks
    /\ nchunks' = nchunks + 1
    /\ UNCHANGED <<convo, resume_data, file, pc, response, full_response,
                   current_section, user_input, errors, yielded, convo0, resume0,
                   outcome, calls, origin, saved, template, pdf_file, request,
                   render_result>>

\* the stream is exhausted: the assistant turn is appended, the generator returns
StreamEnd ==
    /\ convo' = ConvoAfterStream(convo, response)
    /\ outcome' = "ok"
    /\ UNCHANGED errors

\* ollama.chat or the iteration raises: reported with st.error, the generator returns
StreamFail ==
    /\ convo' = ConvoAfterFailure(convo, response)
    /\ errors' = errors + 1
    /\ outcome' = "failed"

----------------------------------------------------------------------------
(* A client of the class: successive generate_resume_section calls on one builder *)

BuilderSections == {"Skills", "Hobbies"}

BuilderInputs == {<<"x">>, <<"{", "}">>}

\* generate_resume_section(name, input), the generator it returns started
Call(name, input) ==
    /\ pc = "idle"
    /\ calls < MaxCalls
    /\ calls' = calls + 1
    /\ current_section' = name
    /\ user_input' = input
    /\ LET p == FormattedPrompt(name, input) IN
         IF p.ok
         THEN StreamBegin(p.text) /\ pc' = "stream"
         ELSE /\ pc' = "raised"
              /\ UNCHANGED <<convo, convo0, request, response, full_response, yielded,
                             nchunks, outcome>>
    /\ UNCHANGED <<resume_data, file, errors, resume0, origin, saved, template,
                   pdf_file, render_result>>

\* the caller's for loop ends with the stream
CallEnd ==
    /\ pc = "stream"
    /\ StreamEnd
    /\ pc' = "idle"
    /\ UNCHANGED <<resume_data, file, response, full_response, current_section,
                   user_input, yielded, convo0, resume0, calls, origin, saved, template,
                   pdf_file, request, nchunks, render_result>>

\* the caller's for loop ends with the failure
CallFail ==
    /\ pc = "stream"
    /\ StreamFail
    /\ pc' = "idle"
    /\ UNCHANGED <<resume_data, file, response, full_response, current_section,
                   user_input, yielded, convo0, resume0, calls, origin, saved, template,
                   pdf_file, request, nchunks, render_result>>

NoOrigin == [n \in SupportedSections |-> [status |-> "none", text |-> <<>>]]

NoPdf == [exists |-> FALSE, doc |-> <<>>]

\* ResumeBuilder.__init__, nothing run yet
InitBuilder ==
    /\ convo = <<>>
    /\ resume_data = <<>>
    /\ file = NoFile
    /\ pc = "idle"
    /\ response = <<>>
    /\ full_response = <<>>
    /\ current_section = ""
    /\ user_input = <<>>
    /\ errors = 0
    /\ yielded = <<>>
    /\ convo0 = <<>>
    /\ resume0 = <<>>
    /\ outcome = "none"
    /\ calls = 0
    /\ origin = NoOrigin
    /\ saved = <<>>
    /\ template = "modern"
    /\ pdf_file = NoPdf
    /\ request = <<>>
    /\ nchunks = 0
    /\ render_result = "none"

NextBuilder ==
    \/ \E name \in BuilderSections, input \in BuilderInputs : Call(name, input)
    \/ \E fragment \in Fragments : Chunk(fragment)
    \/ SkipChunk
    \/ CallEnd
    \/ CallFail

SpecBuilder == InitBuilder /\ [][NextBuilder]_vars

----------------------------------------------------------------------------
(* ResumeBuilder.save_resume / load_resume *)

\* save_resume: open(filename, 'w') and json.dump(self.resume_data, f)
SavedFile(data) == [exists |-> TRUE, text |-> JsonDump(data)]

\* load_resume: json.load of the file, {} on FileNotFoundError; ok is FALSE when
\* json.load raises, which load_resume does not catch
LoadedResume(f) ==
    IF f.exists
    THEN LET r == JsonLoad(f.text) IN [ok |-> r.ok, val |-> r.val]
    ELSE [ok |-> TRUE, val |-> <<>>]

----------------------------------------------------------------------------
(* main(): one script run per user interaction, the "Generate Section" handler *)

SessionSections == {"Personal Information", "Skills"}

SessionInputs == {<<>>, <<"x">>}

\* the content fragment the model service delivers in a session
SessionFragments == {<<"a", "\"">>}

\* a script run starts: the page and the locals of the previous run are gone;
\* builder = ResumeBuilder(); builder.load_resume()
main_start ==
    /\ pc = "end"
    /\ calls < MaxRuns
    /\ calls' = calls + 1
    /\ convo' = <<>>
    /\ LET r == LoadedResume(file) IN
         IF r.ok THEN resume_data' = r.val /\ pc' = "widgets"
         ELSE resume_data' = <<>> /\ pc' = "crashed"
    /\ response' = <<>>
    /\ full_response' = <<>>
    /\ current_section' = ""
    /\ user_input' = <<>>
    /\ errors' = 0
    /\ yielded' = <<>>
    /\ convo0' = <<>>
    /\ resume0' = <<>>
    /\ outcome' = "none"
    /\ request' = <<>>
    /\ nchunks' = 0
    /\ UNCHANGED <<file, origin, saved, template, pdf_file, render_result>>

\* st.button("Generate Section") pressed: the for loop over
\* builder.generate_resume_section(current_section, user_input) starts
GenerateButton(section, input) ==
    /\ pc = "widgets"
    /\ current_section' = section
    /\ user_input' = input
    /\ resume0' = resume_data
    /\ LET p == FormattedPrompt(section, input) IN
         IF p.ok
         THEN StreamBegin(p.text) /\ pc' = "stream"
         ELSE /\ pc' = "crashed"
              /\ UNCHANGED <<convo, convo0, request, response, full_response, yielded,
                             nchunks, outcome>>
    /\ UNCHANGED <<resume_data, file, errors, calls, origin, saved, template, pdf_file,
                   render_result>>

\* a handler that replaces the whole store by the new section
StoredResume_only(data, section, input, generated) ==
    <<Entry(section, input, generated)>>

\* builder.resume_data[current_section] = {'input': ..., 'generated': full_response}
StoredResume(data, section, input, generated) ==
    SetEntry(data, Entry(section, input, generated))

\* the lines after the for loop: the section is stored and the resume saved
StoreAndSave ==
    /\ resume_data' = StoredResume(resume_data, current_section, user_input, full_response)
    /\ file' = SavedFile(resume_data')
    /\ origin' = [origin EXCEPT ![current_section] =
                     [status |-> outcome', text |-> response]]
    /\ pc' = "end"

\* the stream ends: assistant turn, then the handler stores and saves
MainEnd ==
    /\ pc = "stream"
    /\ StreamEnd
    /\ StoreAndSave
    /\ UNCHANGED <<response, full_response, current_section, user_input, yielded,
                   convo0, resume0, calls, saved, template, pdf_file, request, nchunks,
                   render_result>>

\* the stream fails: the generator reports and returns, the for loop ends normally,
\* and the handler stores and saves what it has received
MainFail ==
    /\ pc = "stream"
    /\ StreamFail
    /\ StoreAndSave
    /\ UNCHANGED <<response, full_response, current_section, user_input, yielded,
                   convo0, resume0, calls, saved, template, pdf_file, request, nchunks,
                   render_result>>

\* the script run ends with no button pressed
NoButton ==
    /\ pc = "widgets"
    /\ pc' = "end"
    /\ UNCHANGED <<convo, resume_data, file, response, full_response, current_section,
                   user_input, errors, yielded, convo0, resume0, outcome, calls, origin,
                   saved, template, pdf_file, request, nchunks, render_result>>

\* before the first script run: no builder yet, no resume_data.json
Init ==
    /\ convo = <<>>
    /\ resume_data = <<>>
    /\ file = NoFile
    /\ pc = "end"
    /\ response = <<>>
    /\ full_response = <<>>
    /\ current_section = ""
    /\ user_input = <<>>
    /\ errors = 0
    /\ yielded = <<>>
    /\ convo0 = <<>>
    /\ resume0 = <<>>
    /\ outcome = "none"
    /\ calls = 0
    /\ origin = NoOrigin
    /\ saved = <<>>
    /\ template = "modern"
    /\ pdf_file = NoPdf
    /\ request = <<>>
    /\ nchunks = 0
    /\ render_result = "none"

Next ==
    \/ main_start
    \/ \E section \in SessionSections, input \in SessionInputs :
           GenerateButton(section, input)
    \/ \E fragment \in SessionFragments : Chunk(fragment)
    \/ SkipChunk
    \/ MainEnd
    \/ MainFail
    \/ NoButton

Spec == Init /\ [][Next]_vars

----------------------------------------------------------------------------
(* The resume store on its own: save_resume and load_resume on drawn resumes *)

StoreSections == {"Skills", "Education"}

StoreChars == {"a", "n", "\"", "\\", "\n"}

RECURSIVE FieldTuples(_, _)
\* every k-tuple of texts over StoreChars with at most n tokens in all
FieldTuples(k, n) ==
    IF k = 0 THEN {<<>>}
    ELSE UNION {{<<t>> \o rest : rest \in FieldTuples(k - 1, n - Len(t))} :
                t \in TextsUpTo(StoreChars, n)}

\* the resumes drawn: zero, one or two sections, at most MaxLen tokens of text
StoreResumes ==
    {<<>>}
    \cup {<<Entry(a, f[1], f[2])>> : a \in StoreSections, f \in FieldTuples(2, MaxLen)}
    \cup {<<Entry(n[1], f[1], f[2]), Entry(n[2], f[3], f[4])>> :
            n \in {m \in StoreSections \X StoreSections : m[1] # m[2]},
            f \in FieldTuples(4, MaxLen)}

\* builder.save_resume()
save_resume ==
    /\ pc \in {"mem", "loaded"}
    /\ file' = SavedFile(resume_data)
    /\ saved' = resume_data
    /\ UNCHANGED <<convo, resume_data, pc, response, full_response, current_section,
                   user_input, errors, yielded, convo0, resume0, outcome, calls, origin,
                   template, pdf_file, request, nchunks, render_result>>

\* builder = ResumeBuilder(): a new script run starts with an empty store
new_builder ==
    /\ pc \in {"mem", "loaded"}
    /\ resume_data # <<>>
    /\ resume_data' = <<>>
    /\ pc' = "mem"
    /\ UNCHANGED <<convo, file, response, full_response, current_section, user_input,
                   errors, yielded, convo0, resume0, outcome, calls, origin, saved,
                   template, pdf_file, request, nchunks, render_result>>

\* builder.load_resume()
load_resume ==
    /\ pc \in {"mem", "loaded"}
    /\ LET r == LoadedResume(file) IN
         IF r.ok THEN resume_data' = r.val /\ pc' = "loaded"
         ELSE resume_data' = resume_data /\ pc' = "crashed"
    /\ UNCHANGED <<convo, file, response, full_response, current_section, user_input,
                   errors, yielded, convo0, resume0, outcome, calls, origin, saved,
                   template, pdf_file, request, nchunks, render_result>>

InitStore ==
    /\ convo = <<>>
    /\ resume_data \in StoreResumes
    /\ file = NoFile
    /\ pc = "mem"
    /\ response = <<>>
    /\ full_response = <<>>
    /\ current_section = ""
    /\ user_input = <<>>
    /\ errors = 0
    /\ yielded = <<>>
    /\ convo0 = <<>>
    /\ resume0 = <<>>
    /\ outcome = "none"
    /\ calls = 0
    /\ origin = NoOrigin
    /\ saved = <<>>
    /\ template = "modern"
    /\ pdf_file = NoPdf
    /\ request = <<>>
    /\ nchunks = 0
    /\ render_result = "none"

NextStore == save_resume \/ new_builder \/ load_resume

SpecStore == InitStore /\ [][NextStore]_vars

----------------------------------------------------------------------------
(* Prompt construction on its own: generate_resume_section on drawn arguments *)

PromptSections == SupportedSections \cup {"Hobbies", ""}

PromptChars == {"x", "{", "}", "input"}

NextPrompt ==
    \E name \in PromptSections, input \in TextsUpTo(PromptChars, MaxInputLen) :
        Call(name, input)

SpecPrompt == InitBuilder /\ [][NextPrompt]_vars

----------------------------------------------------------------------------
(* yaml.safe_load on block-style text, as create_pdf calls it *)
(*                                                                         *)
(* A generated text is lines joined by "\n".  The lines handled are: the   *)
(* document marker ---, "key:", "key: word", "key: [word]" (a flow list),  *)
(* "key: [" (a flow list left open), "- word" and a plain word, all at     *)
(* column 0.                                                               *)

YNull == [kind |-> "null", text |-> <<>>, items |-> <<>>, pairs |-> <<>>]

YStr(t) == [kind |-> "str", text |-> t, items |-> <<>>, pairs |-> <<>>]

YList(xs) == [kind |-> "list", text |-> <<>>, items |-> xs, pairs |-> <<>>]

YDict(ps) == [kind |-> "dict", text |-> <<>>, items |-> <<>>, pairs |-> ps]

\* the parser raised (a ScannerError, ParserError or ComposerError)
YError == [kind |-> "error", text |-> <<>>, items |-> <<>>, pairs |-> <<>>]

Indicators == {"\n", ":", ": ", "- ", "---", "[", "]", " "}

IsWord(tok) == tok \notin Indicators

RECURSIVE SplitFrom(_, _, _, _)
SplitFrom(text, i, line, acc) ==
    IF i > Len(text) THEN (IF line = <<>> THEN acc ELSE Append(acc, line))
    ELSE IF text[i] = "\n"
         THEN SplitFrom(text, i + 1, <<>>, IF line = <<>> THEN acc ELSE Append(acc, line))
    ELSE SplitFrom(text, i + 1, Append(line, text[i]), acc)

\* the non-blank lines of a text
SplitLines(text) == SplitFrom(text, 1, <<>>, <<>>)

RECURSIVE JoinWith(_, _)
\* sep.join(parts)
JoinWith(sep, parts) ==
    IF parts = <<>> THEN <<>>
    ELSE IF Len(parts) = 1 THEN parts[1]
    ELSE parts[1] \o sep \o JoinWith(sep, Tail(parts))

IsMarker(l) == l = <<"---">>

IsKey(l) == Len(l) = 2 /\ IsWord(l[1]) /\ l[2] = ":"

IsKeyValue(l) == Len(l) = 3 /\ IsWord(l[1]) /\ l[2] = ": " /\ IsWord(l[3])

IsKeyFlow(l) ==
    Len(l) = 5 /\ IsWord(l[1]) /\ l[2] = ": " /\ l[3] = "[" /\ IsWord(l[4]) /\ l[5] = "]"

IsItem(l) == Len(l) = 2 /\ l[1] = "- " /\ IsWord(l[2])

IsPlain(l) == Len(l) = 1 /\ IsWord(l[1])

\* a line that starts a mapping entry
IsEntry(l) == IsKey(l) \/ IsKeyValue(l) \/ IsKeyFlow(l)

\* d[k] = v while the mapping is constructed: a repeated key keeps its place
PutValue(pairs, k, v) == PutPair(pairs, k, v)

RECURSIVE MappingFrom(_, _, _, _)
\* a block mapping at column 0 from line i; key names the entry that may still take
\* "- item" lines (one written "key:"), "" when there is none
MappingFrom(lines, i, pairs, key) ==
    IF i > Len(lines) THEN YDict(pairs)
    ELSE LET l == lines[i] IN
         IF IsKey(l) THEN MappingFrom(lines, i + 1, PutValue(pairs, l[1], YNull), l[1])
         ELSE IF IsKeyValue(l)
              THEN MappingFrom(lines, i + 1, PutValue(pairs, l[1], YStr(<<l[3]>>)), "")
         ELSE IF IsKeyFlow(l)
              THEN MappingFrom(lines, i + 1, PutValue(pairs, l[1], YList(<<(<<l[4]>>)>>)), "")
         ELSE IF IsItem(l) /\ key # ""
              THEN LET old == Lookup(pairs, key)
                       new == YList(Append(old.items, <<l[2]>>))
                   IN  MappingFrom(lines, i + 1, PutValue(pairs, key, new), key)
         ELSE YError

\* one document's content
ParseBlock(lines) ==
    IF \E i \in 1..Len(lines) :
          ~(IsEntry(lines[i]) \/ IsItem(lines[i]) \/ IsPlain(lines[i]))
    THEN YError        \* a second document, an open flow list
    ELSE IF lines = <<>> THEN YNull
    ELSE IF IsPlain(lines[1])
         \* a plain scalar runs on over the following lines, folded with spaces,
         \* until a line would start a mapping entry
         THEN IF \E i \in 1..Len(lines) : IsEntry(lines[i]) THEN YError
              ELSE YStr(JoinWith(<<" ">>, lines))
    ELSE IF IsItem(lines[1])
         THEN IF \A i \in 1..Len(lines) : IsItem(lines[i])
              THEN YList([i \in 1..Len(lines) |-> <<lines[i][2]>>])
              ELSE YError
    ELSE MappingFrom(lines, 1, <<>>, "")

\* yaml.safe_load(text)
safe_load(text) ==
    LET lines == SplitLines(text) IN
    IF lines # <<>> /\ IsMarker(lines[1]) THEN ParseBlock(Tail(lines))
    ELSE ParseBlock(lines)

RECURSIVE ReprItems(_)
ReprItems(xs) ==
    IF xs = <<>> THEN <<>>
    ELSE <<"'">> \o xs[1] \o <<"'">>
         \o (IF Len(xs) = 1 THEN <<>> ELSE <<", ">> \o ReprItems(Tail(xs)))

\* str(value), the text an f-string puts for a value
StrOf(v) ==
    CASE v.kind = "str"  -> v.text
      [] v.kind = "null" -> <<"None">>
      [] v.kind = "list" -> <<"[">> \o ReprItems(v.items) \o <<"]">>
      [] OTHER           -> <<"{...}">>

----------------------------------------------------------------------------
(* ResumeBuilder.create_pdf and format_yaml_content *)
(*                                                                         *)
(* The document is the sequence of content blocks handed to the layout     *)
(* engine, each with the font in force; layout itself is the engine's.     *)

TemplateNames == {"modern", "classic"}

\* load_templates(): the layout constants create_pdf reads
load_templates(name) ==
    IF name = "modern"
    THEN [font |-> "Arial", header_size |-> 16, subheader_size |-> 12, body_size |-> 10]
    ELSE [font |-> "Times", header_size |-> 14, subheader_size |-> 12, body_size |-> 10]

\* a lookup that falls back to the first template
TemplateSettings_default(name) ==
    [ok |-> TRUE, settings |-> load_templates(IF name \in TemplateNames THEN name
                                              ELSE "modern")]

\* self.templates[template]: a KeyError for a name that is not registered
TemplateSettings(name) ==
    IF name \in TemplateNames
    THEN [ok |-> TRUE, settings |-> load_templates(name)]
    ELSE [ok |-> FALSE, settings |-> load_templates("modern")]

sections_order ==
    <<"Professional Summary", "Work Experience", "Education", "Skills", "Projects",
      "Certifications">>

\* section.upper()
Upper(section) ==
    CASE section = "Professional Summary" -> "PROFESSIONAL SUMMARY"
      [] section = "Work Experience" -> "WORK EXPERIENCE"
      [] section = "Education" -> "EDUCATION"
      [] section = "Skills" -> "SKILLS"
      [] section = "Projects" -> "PROJECTS"
      [] section = "Certifications" -> "CERTIFICATIONS"

Block(op, family, style, size, arg) ==
    [op |-> op, font |-> <<family, style>>, size |-> size, arg |-> arg]

\* the bullet character U+2022 and the space after it
Bullet == "<U+2022> "

RECURSIVE BulletLines(_)
\* "\n".join of the bullet and the item, for each item of the value
BulletLines(items) ==
    IF items = <<>> THEN <<>>
    ELSE <<Bullet>> \o items[1]
         \o (IF Len(items) = 1 THEN <<>> ELSE <<"\n">> \o BulletLines(Tail(items)))

RECURSIVE FormatPairs(_)
FormatPairs(pairs) ==
    IF pairs = <<>> THEN <<>>
    ELSE LET k == pairs[1][1]
             v == pairs[1][2]
         IN  (IF v.kind = "list"
              THEN <<k, ":", "\n">> \o BulletLines(v.items) \o <<"\n">>
              ELSE <<k, ": ">> \o StrOf(v) \o <<"\n">>)
             \o FormatPairs(Tail(pairs))

\* a formatter that writes a list value like any other value
format_yaml_content_flat(content) ==
    IF content.kind = "dict"
    THEN Concat([i \in 1..Len(content.pairs) |->
                    <<content.pairs[i][1], ": ">> \o StrOf(content.pairs[i][2])
                    \o <<"\n">>])
    ELSE StrOf(content)

\* format_yaml_content(content)
format_yaml_content(content) ==
    IF content.kind = "dict" THEN FormatPairs(content.pairs) ELSE StrOf(content)

\* the text create_pdf hands to multi_cell for a section: parsed and formatted when
\* it holds '---' and the parser does not raise, the generated text otherwise
BodyContent(content) ==
    IF Contains(content, "---")
    THEN LET parsed == safe_load(content) IN
         IF parsed.kind = "error" THEN content ELSE format_yaml_content(parsed)
    ELSE content

\* personal_info.get(field, '')
GetField(info, field) ==
    IF HasKey(info.pairs, field) THEN Lookup(info.pairs, field) ELSE YStr(<<>>)

\* the blocks of the Personal Information header, for a parsed mapping
PersonalBlocks(info, t) ==
    <<Block("cell", t.font, "B", t.header_size, GetField(info, "name")),
      Block("cell", t.font, "", t.body_size,
            YStr(StrOf(GetField(info, "email")) \o <<" | ">>
                 \o StrOf(GetField(info, "phone")) \o <<" | ">>
                 \o StrOf(GetField(info, "location")))),
      Block("cell", t.font, "", t.body_size,
            YStr(<<"LinkedIn: ">> \o StrOf(GetField(info, "linkedin")))),
      Block("ln", t.font, "", t.body_size, YNull)>>

\* personal_info after the try/except around yaml.safe_load: {} when it raised
PersonalInfo(generated) ==
    LET parsed == safe_load(generated) IN
    IF parsed.kind = "error" THEN YDict(<<>>) ELSE parsed

RECURSIVE BodyBlocks(_, _, _)
\* the loop over sections_order from index i
BodyBlocks(data, t, i) ==
    IF i > Len(sections_order) THEN <<>>
    ELSE LET section == sections_order[i] IN
         (IF HasSection(data, section)
          THEN <<Block("cell", t.font, "B", t.subheader_size, YStr(<<Upper(section)>>)),
                 Block("multi_cell", t.font, "", t.body_size,
                       YStr(BodyContent(Get(data, section).generated))),
                 Block("ln", t.font, "", t.body_size, YNull)>>
          ELSE <<>>)
         \o BodyBlocks(data, t, i + 1)

\* create_pdf(filename, template): [result, doc]; doc is what pdf.output writes.
\* What the layout engine does with a block it is handed is the engine's own.
RenderPdf(data, name) ==
    LET ts == TemplateSettings(name)
        t == ts.settings
        hasPI == HasSection(data, "Personal Information")
        info == PersonalInfo(Get(data, "Personal Information").generated)
    IN  IF ~ts.ok THEN [result |-> "KeyError", doc |-> <<>>]
        ELSE IF hasPI /\ info.kind # "dict"
             \* None, a str or a list has no .get
             THEN [result |-> "AttributeError", doc |-> <<>>]
        ELSE [result |-> "ok",
              doc |-> <<Block("add_page", "Arial", "B", 15, YNull)>>
                      \o (IF hasPI THEN PersonalBlocks(info, t) ELSE <<>>)
                      \o BodyBlocks(data, t, 1)]

\* builder.create_pdf(filename, template): the file is written by the last statement
create_pdf ==
    /\ pc = "ready"
    /\ LET r == RenderPdf(resume_data, template) IN
         /\ render_result' = r.result
         /\ pdf_file' = IF r.result = "ok" THEN [exists |-> TRUE, doc |-> r.doc]
                        ELSE pdf_file
    /\ pc' = "rendered"
    /\ UNCHANGED <<convo, resume_data, file, response, full_response, current_section,
                   user_input, errors, yielded, convo0, resume0, outcome, calls, origin,
                   saved, template, request, nchunks>>

RenderLines ==
    {<<"---">>, <<"name", ":">>, <<"name", ": ", "Ann">>, <<"email", ": ", "a@b">>,
     <<"name", ": ", "[", "Go", "]">>, <<"name", ": ", "[">>, <<"- ", "Go">>,
     <<"Ann">>}

\* every text of at most MaxLines of these lines
DrawnTexts == {JoinWith(<<"\n">>, ls) : ls \in TextsUpTo(RenderLines, MaxLines)}

SkillsExample ==
    <<"Technical Skills", ":", "\n", "- ", "Python", "\n", "- ", "Go", "\n",
      "Soft Skills", ":", "\n", "- ", "Communication">>

SampleTexts ==
    {SkillsExample, <<"---", "\n">> \o SkillsExample, <<"Ann">>,
     <<"name", ": ", "Ann", "\n", "email", ": ", "a@b">>}

\* the resumes drawn: a drawn text in one section beside sample texts in the others
RenderResumes ==
    {<<Entry("Personal Information", <<>>, t)>> : t \in DrawnTexts}
    \cup {<<Entry("Skills", <<>>, t)>> : t \in DrawnTexts \cup SampleTexts}
    \cup {<<Entry("Personal Information", <<>>, t), Entry("Skills", <<>>, u)>> :
            t \in DrawnTexts, u \in SampleTexts}
    \cup {<<Entry("Skills", <<>>, t), Entry("Personal Information", <<>>, u),
            Entry("Professional Summary", <<>>, <<"Ann">>)>> :
            t \in DrawnTexts, u \in SampleTexts}

\* a document already at the target filename
OldPdf == [exists |-> TRUE, doc |-> <<Block("add_page", "Arial", "B", 15, YNull)>>]

InitRender ==
    /\ convo = <<>>
    /\ resume_data \in RenderResumes
    /\ file = NoFile
    /\ pc = "ready"
    /\ response = <<>>
    /\ full_response = <<>>
    /\ current_section = ""
    /\ user_input = <<>>
    /\ errors = 0
    /\ yielded = <<>>
    /\ convo0 = <<>>
    /\ resume0 = <<>>
    /\ outcome = "none"
    /\ calls = 0
    /\ origin = NoOrigin
    /\ saved = <<>>
    /\ template \in TemplateNames \cup {"fancy"}
    /\ pdf_file \in {NoPdf, OldPdf}
    /\ request = <<>>
    /\ nchunks = 0
    /\ render_result = "none"

NextRender == create_pdf

SpecRender == InitRender /\ [][NextRender]_vars

----------------------------------------------------------------------------
(* Properties *)

\* the template generate_resume_section is to use for a section name
ChosenTemplate(name) ==
    IF name \in SupportedSections THEN prompts(name) ELSE GenericPrompt

SlotPositions(tpl) == {q \in 1..Len(tpl) - 2 : SubSeq(tpl, q, q + 2) = Slot}

\* the template with its slot replaced by the input, nothing else touched
Substitute(tpl, input) ==
    LET q == CHOOSE q \in SlotPositions(tpl) : TRUE
    IN  SubSeq(tpl, 1, q - 1) \o input \o SubSeq(tpl, q + 3, Len(tpl))

Entries(data) == {data[i] : i \in 1..Len(data)}

Names(data) == {data[i].name : i \in 1..Len(data)}

\* C1 (as stated): every stored section, in memory and in the file, holds the whole
\* text of an invocation that ran to stream end, or the empty string when the
\* invocation that produced it failed.
C1_GeneratedCompleteOrEmpty ==
    \A e \in Entries(resume_data) \cup Entries(LoadedResume(file).val) :
        /\ origin[e.name].status = "failed" => e.generated = <<>>
        /\ origin[e.name].status = "ok" => e.generated = origin[e.name].text

\* C2: when the model call of a stream_response call fails, the failure is reported
\* (every failed call so far has its report), the generator has returned, so it
\* yields nothing more, and none of the turns the call added is an assistant turn:
\* the text accumulated up to the failure is in no turn.
C2_FailedCallLeavesNoAssistantTurn ==
    (pc = "idle" /\ outcome = "failed") =>
        /\ errors = calls - Cardinality({i \in 1..Len(convo) : convo[i].role = "assistant"})
        /\ errors >= 1
        /\ Len(convo) >= Len(convo0)
        /\ \A i \in Len(convo0) + 1..Len(convo) :
               convo[i].role # "assistant" /\ convo[i].content # response

C2_Witness ==
    /\ pc = "idle"
    /\ outcome = "failed"
    /\ Len(yielded) >= 1
    /\ Len(convo0) >= 2

\* C3 (as stated): after a failed call the transcript is identical to the transcript
\* before the call.
C3_TranscriptIdenticalAfterFailure ==
    (pc = "idle" /\ outcome = "failed") => convo = convo0

\* C3 (amended): after a failed call the transcript is the transcript before the call
\* followed by exactly one turn, the user turn holding the prompt; no assistant turn
\* is recorded.
C3_FailureAddsOnlyUserTurn ==
    (pc = "idle" /\ outcome = "failed") =>
        convo = Append(convo0,
                       Turn("user", Substitute(ChosenTemplate(current_section),
                                               user_input)))

C3_Witness ==
    /\ pc = "idle"
    /\ outcome = "failed"
    /\ yielded = <<>>
    /\ Len(convo0) >= 1

\* the transcript a call leaves while it streams, and what the model was given
C4_WhileStreaming ==
    pc = "stream" =>
        /\ convo = Append(convo0, Turn("user", FormattedPrompt(current_section,
                                                               user_input).text))
        /\ request = convo

\* the transcript a call that ran to stream end leaves
C4_AfterStreamEnd ==
    (pc = "idle" /\ outcome = "ok") =>
        convo = convo0 \o <<Turn("user", FormattedPrompt(current_section,
                                                        user_input).text),
                            Turn("assistant", Concat(yielded))>>

\* a step only ever appends to the transcript
C4_Appends ==
    /\ Len(convo') >= Len(convo)
    /\ SubSeq(convo', 1, Len(convo)) = convo

\* C4: a call that runs to stream end adds exactly two turns: the user turn with the
\* prompt, in place before the model is invoked (the last message the model is
\* given), then, only once the last fragment has been yielded, the assistant turn
\* holding the fragments yielded, concatenated in order; earlier turns never change.
C4_TwoTurnsInOrder ==
    [](C4_WhileStreaming /\ C4_AfterStreamEnd) /\ [][C4_Appends]_vars

C4_Witness ==
    /\ pc = "idle"
    /\ outcome = "ok"
    /\ Len(yielded) = 2
    /\ yielded[1] # yielded[2]
    /\ Len(convo0) >= 2

\* C7: load_resume after save_resume yields the resume that was saved, section by
\* section and field by field, and load_resume with no file yields the empty resume;
\* neither raises.
C7_SaveLoadRoundTrip ==
    /\ pc # "crashed"
    /\ pc = "loaded" => resume_data = (IF file.exists THEN saved ELSE <<>>)

C7_Witness ==
    /\ pc = "loaded"
    /\ file.exists
    /\ Len(resume_data) = 2
    /\ \E e \in Entries(resume_data) : Contains(e.generated, "\"")

\* C9: the prompt handed to the model is the chosen template (the catalog entry of a
\* supported name, the generic template of any other) with its single slot replaced
\* once by the user input, taken literally; no name and no input raises.
C9_PromptIsTemplateWithInput ==
    /\ pc # "raised"
    /\ \A name \in PromptSections : Cardinality(SlotPositions(ChosenTemplate(name))) = 1
    /\ pc = "stream" =>
          /\ request # <<>>
          /\ request[Len(request)] =
                Turn("user", Substitute(ChosenTemplate(current_section), user_input))

C9_Witness ==
    /\ pc = "stream"
    /\ current_section \notin SupportedSections
    /\ Contains(user_input, "{")

\* what a completed generate trigger leaves behind
C10_AfterTrigger ==
    (pc = "end" /\ outcome # "none") =>
        /\ file.exists
        /\ LoadedResume(file) = [ok |-> TRUE, val |-> resume_data]
        /\ Names(resume_data) = Names(resume0) \cup {current_section}
        /\ Get(resume_data, current_section).input = user_input
        /\ Get(resume_data, current_section).generated = Concat(yielded)
        /\ \A e \in Entries(resume0) :
               e.name # current_section => e \in Entries(resume_data)

\* the file changes only in the step that ends the stream
C10_WrittenAfterStream == file' # file => (pc = "stream" /\ pc' = "end")

\* C10: the resume file is written only once a generation's stream has ended, and
\* after each completed trigger its content equals the resume in memory, in which
\* the triggered section holds the submitted input and the text accumulated and
\* every other section is unchanged.
C10_FileFollowsStore == []C10_AfterTrigger /\ [][C10_WrittenAfterStream]_vars

C10_Witness ==
    /\ pc = "end"
    /\ outcome = "ok"
    /\ calls = 2
    /\ Len(resume_data) = 2
    /\ Len(yielded) = 2

PI == "Personal Information"

\* the Personal Information header of a document shows nothing in any field
PersonalFieldsBlank(doc) ==
    /\ Len(doc) >= 4
    /\ doc[2].arg = YStr(<<>>)
    /\ doc[3].arg = YStr(<<" | ", " | ">>)
    /\ doc[4].arg = YStr(<<"LinkedIn: ">>)

\* C5 (as stated): rendering a resume whose Personal Information text the parser
\* rejects, or parses to something that is no mapping, completes and produces a
\* document whose personal-info fields are blank.
C5_BadPersonalInfoRendersBlank ==
    (/\ pc = "rendered"
     /\ template \in TemplateNames
     /\ HasSection(resume_data, PI)
     /\ safe_load(Get(resume_data, PI).generated).kind # "dict") =>
        /\ render_result = "ok"
        /\ pdf_file.exists
        /\ PersonalFieldsBlank(pdf_file.doc)

\* the headings a document must carry: one per body section of the resume
HasHeadings(doc, data) ==
    \A i \in 1..Len(sections_order) :
        HasSection(data, sections_order[i]) =>
            \E j \in 1..Len(doc) :
                doc[j].op = "cell" /\ doc[j].arg = YStr(<<Upper(sections_order[i])>>)

C6_AfterRender ==
    pc = "rendered" =>
        /\ template \notin TemplateNames => render_result = "KeyError"
        /\ template \in TemplateNames =>
             /\ render_result # "KeyError"
             /\ render_result # "ok" =>
                   /\ HasSection(resume_data, PI)
                   /\ safe_load(Get(resume_data, PI).generated).kind
                         \notin {"dict", "error"}
             /\ ~HasSection(resume_data, PI) =>
                   /\ render_result = "ok"
                   /\ pdf_file.exists
                   /\ HasHeadings(pdf_file.doc, resume_data)

C6_NoOutput == template \notin TemplateNames => pdf_file' = pdf_file

\* C6: with a template name that is not registered create_pdf fails, whatever the
\* resume holds, and the file at the target name is neither produced nor changed;
\* with a registered name it fails neither on the template nor on any body section,
\* whatever the parser makes of the section's text.
C6_UnknownTemplateOnlyHardError == []C6_AfterRender /\ [][C6_NoOutput]_vars

C6_Witness ==
    /\ pc = "rendered"
    /\ template \notin TemplateNames
    /\ pdf_file = OldPdf
    /\ Len(resume_data) = 3

\* the text handed to the layout engine under a section's heading
BodyText(doc, section) ==
    LET i == CHOOSE i \in 1..Len(doc) - 1 :
                 /\ doc[i].op = "cell"
                 /\ doc[i].arg = YStr(<<Upper(section)>>)
                 /\ doc[i + 1].op = "multi_cell"
    IN  doc[i + 1].arg.text

\* key: then one line per item, each behind the bullet b, for every key in order
ExpectedLines(pairs, b) ==
    Concat([i \in 1..Len(pairs) |->
              <<(<<pairs[i][1], ":">>)>>
              \o [j \in 1..Len(pairs[i][2].items) |-> <<b>> \o pairs[i][2].items[j]]])

IsListMapping(v) ==
    /\ v.kind = "dict"
    /\ v.pairs # <<>>
    /\ \A i \in 1..Len(v.pairs) : v.pairs[i][2].kind = "list"

====
